---- MODULE Spec2Model ----
(***************************************************************************)
(* The URL shortener of gunslol: the ShortLink / Click store (Prisma over  *)
(* PostgreSQL), the create handlers (POST /links, POST /api/shorten, the   *)
(* web POST /api/links) and the redirect handlers (the two GET /r/:slug    *)
(* handlers of the backend and the Next.js RedirectPage).  Every await on  *)
(* the store is one step of a request; requests interleave at the awaits.  *)
(***************************************************************************)
EXTENDS Integers, Sequences, FiniteSets, TLC

(***************************************************************************)
(* Bounds of the model.                                                    *)
(***************************************************************************)
MaxReq == 2
MaxTime == 1

(***************************************************************************)
(* Program constants.                                                      *)
(***************************************************************************)
SlugMin == 3
SlugMax == 32
NanoidSize == 6

(***************************************************************************)
(* Strings are sequences of one-character strings.  Undefined is the       *)
(* marker of an absent JSON field; it is no string of characters.          *)
(***************************************************************************)
Undefined == << "undefined" >>

Lower == {"a","b","c","d","e","f","g","h","i","j","k","l","m",
          "n","o","p","q","r","s","t","u","v","w","x","y","z"}
Upper == {"A","B","C","D","E","F","G","H","I","J","K","L","M",
          "N","O","P","Q","R","S","T","U","V","W","X","Y","Z"}
Digit == {"0","1","2","3","4","5","6","7","8","9"}

\* The character class [a-zA-Z0-9_-]
SlugAlphabet == Lower \cup Upper \cup Digit \cup {"_", "-"}

\* The pattern with its character class widened to any character.
SlugRegexAnyChar(s) == Len(s) >= 1
\* /^[a-zA-Z0-9_-]+$/
SlugRegex(s) == Len(s) >= 1 /\ \A i \in 1..Len(s) : s[i] \in SlugAlphabet

\* The schema without its length limits.
SlugOkAnyLength(s) == s # Undefined /\ SlugRegex(s)
\* z.string().min(3).max(32).regex(...)
SlugOk(s) == s # Undefined /\ Len(s) >= SlugMin /\ Len(s) <= SlugMax /\ SlugRegex(s)

\* z.string().url(): the string parses as an absolute URL (a scheme, a colon,
\* and for http/https a host without white space).
SchemeChars == Lower \cup Upper \cup Digit \cup {"+", "-", "."}
Colons(u) == {i \in 1..Len(u) : u[i] = ":"}
FirstColon(u) == CHOOSE i \in Colons(u) : \A j \in Colons(u) : i <= j
SchemeOf(u) == SubSeq(u, 1, FirstColon(u) - 1)
AfterScheme(u) == SubSeq(u, FirstColon(u) + 1, Len(u))
RECURSIVE StripSlashes(_)
StripSlashes(s) == IF s # << >> /\ Head(s) = "/" THEN StripSlashes(Tail(s)) ELSE s
HttpSchemes == { <<"h","t","t","p">>, <<"h","t","t","p","s">> }
IsUrl(u) ==
    /\ u # Undefined
    /\ Colons(u) # {}
    /\ FirstColon(u) > 1
    /\ u[1] \in Lower \cup Upper
    /\ \A i \in 1..(FirstColon(u) - 1) : u[i] \in SchemeChars
    /\ (SchemeOf(u) \in HttpSchemes =>
          LET h == StripSlashes(AfterScheme(u))
          IN  h # << >> /\ \A i \in 1..Len(h) : h[i] # " ")

(***************************************************************************)
(* The inputs drawn by the requests.                                       *)
(***************************************************************************)
UrlExample == <<"h","t","t","p","s",":","/","/","e","x","a","m","p","l","e",".","c","o","m">>
UrlDocs == UrlExample \o <<"/","d","o","c","s">>
UrlBad == <<"n","o","t"," ","a"," ","u","r","l">>

SlugAbc == <<"a","b","c">>
SlugXyz == <<"x","y","z","_","-","9">>
SlugHello == <<"h","e","l","l","o">>
SlugShort == <<"a","b">>
SlugSpace == <<"h","a","s"," ","s","p","a","c","e">>
SlugLong == [i \in 1..(SlugMax + 1) |-> "a"]

\* The (url, slug) pairs the create requests carry: well-formed ones, with a
\* custom slug or none, and one for each way the schema rejects a body.
Inputs == { <<UrlExample, Undefined>>, <<UrlExample, SlugAbc>>, <<UrlDocs, SlugAbc>>,
            <<UrlDocs, SlugXyz>>, <<UrlBad, Undefined>>, <<UrlExample, SlugShort>>,
            <<UrlExample, SlugSpace>>, <<UrlExample, SlugLong>> }

\* nanoid(6): six characters of the alphabet A-Za-z0-9_-, drawn at random.
NanoidOutputs == { <<"V","1","S","t","G","X">>, <<"_","k","-","9","q","Z">> }
nanoid(n) == {g \in NanoidOutputs : Len(g) = n}

\* process.env.BASE_URL || 'http://localhost:3001'
BaseUrl == <<"h","t","t","p",":","/","/","l","o","c","a","l","h","o","s","t",":","3","0","0","1">>
ShortUrl(slug) == BaseUrl \o <<"/","r","/">> \o slug

\* The slug a client reads off a short URL: the path segment after /r/,
\* which the router binds to :slug.
Slashes(u) == {i \in 1..Len(u) : u[i] = "/"}
LastSlash(u) == CHOOSE i \in Slashes(u) : \A j \in Slashes(u) : j <= i
PathSlug(u) == SubSeq(u, LastSlash(u) + 1, Len(u))

\* The User table (only read by the handlers) and the sessions of the web app.
Users == { [id |-> "u1", email |-> "test@example.com"] }
NoSession == ""
Sessions == {NoSession, "test@example.com", "ghost@example.com"}

(***************************************************************************)
(* State.  shortLinks and clicks are the two tables, in insertion order    *)
(* (the id of a row is its position); now is the clock of the store; req   *)
(* holds, per request slot, the handler's position and local variables,    *)
(* the store calls it has issued and its response.                         *)
(***************************************************************************)
VARIABLES shortLinks, clicks, now, req

vars == << shortLinks, clicks, now, req >>

Req == 1..MaxReq

CreateKinds == {"POST /links", "POST /api/shorten", "web POST /api/links"}
ResolveKinds == {"server GET /r/:slug", "routes GET /r/:slug", "RedirectPage"}

NoBody == [url |-> Undefined, slug |-> Undefined,
           originalUrl |-> Undefined, customSlug |-> Undefined]
NoLink == [id |-> 0, url |-> Undefined]
NoResp == [status |-> 0, error |-> "", link |-> 0, shortUrl |-> << >>,
           location |-> << >>, page |-> "", list |-> << >>]
Idle == [kind |-> "", pc |-> "idle", body |-> NoBody, session |-> NoSession,
         slug |-> Undefined, custom |-> FALSE, link |-> NoLink, calls |-> << >>,
         resp |-> NoResp, existed |-> FALSE, expired |-> FALSE, expect |-> {},
         fault |-> FALSE]

\* Request bodies: {url, slug?} for createSchema, {originalUrl, customSlug?}
\* for shortenSchema.
Bodies(kind) ==
    IF kind = "POST /api/shorten"
    THEN {[NoBody EXCEPT !.originalUrl = i[1], !.customSlug = i[2]] : i \in Inputs}
    ELSE {[NoBody EXCEPT !.url = i[1], !.slug = i[2]] : i \in Inputs}

\* createSchema.safeParse(body).success
createSchema(body) == IsUrl(body.url) /\ (body.slug = Undefined \/ SlugOk(body.slug))
\* The schema of POST /api/shorten with the customSlug left unchecked.
shortenSchemaUrlOnly(body) == IsUrl(body.originalUrl)
\* shortenSchema.safeParse(body).success
shortenSchema(body) ==
    IsUrl(body.originalUrl) /\ (body.customSlug = Undefined \/ SlugOk(body.customSlug))

Parsed(kind, body) ==
    IF kind = "POST /api/shorten" THEN shortenSchema(body) ELSE createSchema(body)
DataUrl(kind, body) == IF kind = "POST /api/shorten" THEN body.originalUrl ELSE body.url
DataSlug(kind, body) == IF kind = "POST /api/shorten" THEN body.customSlug ELSE body.slug

(***************************************************************************)
(* The store.                                                              *)
(***************************************************************************)
\* The lookup with its where clause dropped: every row matches.
findUniqueAnySlug(rows, slug) == 1..Len(rows)
\* prisma.shortLink.findUnique({ where: { slug } }): the set of matching rows.
findUnique(rows, slug) == {i \in 1..Len(rows) : rows[i].slug = slug}

\* The unique index ShortLink_slug_key: an insert of a taken slug is refused.
SlugTakenNever(rows, slug) == FALSE
SlugTaken(rows, slug) == findUnique(rows, slug) # {}

\* The insert with the short URL stored in place of the destination.
NewLinkShortUrl(rows, slug, url, userId, t) ==
    [id |-> Len(rows) + 1, slug |-> slug, url |-> BaseUrl \o <<"/","r","/">> \o slug,
     userId |-> userId, clickCount |-> 0, createdAt |-> t, expiresAt |-> {}]

\* prisma.shortLink.create({ data: { slug, url, userId? } })
NewLink(rows, slug, url, userId, t) ==
    [id |-> Len(rows) + 1, slug |-> slug, url |-> url, userId |-> userId,
     clickCount |-> 0, createdAt |-> t, expiresAt |-> {}]

\* The click stored under the id after the link's.
NewClickNextLink(rows, linkId) == [id |-> Len(rows) + 1, shortLinkId |-> linkId + 1]
\* The click stored without the link it belongs to.
NewClickNoLink(rows, linkId) == [id |-> Len(rows) + 1, shortLinkId |-> 0]
\* prisma.click.create({ data: { shortLinkId } })
NewClick(rows, linkId) == [id |-> Len(rows) + 1, shortLinkId |-> linkId]

\* The counter update without its where clause: every row is counted up.
IncrementAll(rows, id) == [i \in 1..Len(rows) |-> [rows[i] EXCEPT !.clickCount = @ + 1]]
\* The counter update that also rewrites the destination of the row.
IncrementRewritesUrl(rows, id) ==
    [rows EXCEPT ![id].clickCount = @ + 1, ![id].url = BaseUrl]
\* The counter update with the sign of the step reversed.
Decrement(rows, id) == [rows EXCEPT ![id].clickCount = @ - 1]
\* data: { clickCount: { increment: 1 } }
Increment(rows, id) == [rows EXCEPT ![id].clickCount = @ + 1]

\* The store holds one ShortLink row when the requests begin: a link 'hello'
\* with no click yet and an expiresAt of 0.  The schema has the column and no
\* handler writes it, so only a row stored beforehand can carry one.
InitialLink == [id |-> 1, slug |-> SlugHello, url |-> UrlExample, userId |-> "u1",
             clickCount |-> 0, createdAt |-> 0, expiresAt |-> {0}]

Expired(link, t) == \E e \in link.expiresAt : e < t

ClicksOf(id) == {i \in 1..Len(clicks) : clicks[i].shortLinkId = id}

(***************************************************************************)
(* Responses.                                                              *)
(***************************************************************************)
Error(status, msg) == [NoResp EXCEPT !.status = status, !.error = msg]
\* reply.send(link) / NextResponse.json(link)
SendLink(id) == [NoResp EXCEPT !.status = 200, !.link = id]
\* reply.send({ shortUrl: `${base}/r/${slug}` })
SendShortUrl(slug) == [NoResp EXCEPT !.status = 200, !.shortUrl = ShortUrl(slug)]
\* reply.redirect(link.url) answers 302; redirect(link.url) of next/navigation 307
Redirect(kind, url) ==
    [NoResp EXCEPT !.status = IF kind = "RedirectPage" THEN 307 ELSE 302, !.location = url]
\* An exception that leaves the handler: the framework answers 500.
Unhandled == Error(500, "Internal Server Error")
\* The lookup's null dereferenced: the handler throws.
NotFoundThrows(kind) == Error(500, "Internal Server Error")
NotFound(kind) ==
    IF kind = "RedirectPage"
    THEN [NoResp EXCEPT !.status = 200, !.page = "Link not found"]
    ELSE Error(404, "Not found")
InvalidInput(kind) ==
    Error(400, IF kind = "web POST /api/links" THEN "Invalid data" ELSE "Invalid input")
SlugInUse == Error(400, "Slug already in use")

Done(r, resp) == [r EXCEPT !.pc = "done", !.resp = resp]
Call(r, op) == [r EXCEPT !.calls = Append(@, op)]

\* What a client holds after a successful create: the slug of the entity or of
\* the short URL it was sent, and the url it had submitted.
Created ==
    {<< IF req[c].resp.link # 0 THEN shortLinks[req[c].resp.link].slug
        ELSE PathSlug(req[c].resp.shortUrl),
        DataUrl(req[c].kind, req[c].body) >> :
       c \in {c \in Req : /\ req[c].kind \in CreateKinds
                          /\ req[c].pc = "done"
                          /\ req[c].resp.status = 200}}

\* The slugs the redirect requests ask for: the initial one, a custom one and a
\* generated one; each of the last two has no row until a create inserts it.
ResolveSlugs == {SlugHello, SlugAbc, <<"V","1","S","t","G","X">>}

\* Request slots are interchangeable: they are taken in order.
Free(r) == req[r].pc = "idle" /\ \A q \in 1..(r - 1) : req[q].pc # "idle"

Init ==
    /\ shortLinks = << InitialLink >>
    /\ clicks = << >>
    /\ now = 0
    /\ req = [r \in Req |-> Idle]

\* The insert that stores every link without an owner.
InsertResultAnonymous(rq0, rows, t) ==
    LET rq == Call(rq0, "shortLink.create")
        link == NewLink(rows, rq.slug, DataUrl(rq.kind, rq.body), "", t)
    IN  IF SlugTaken(rows, rq.slug)
        THEN [rows |-> rows, rq |-> Done(rq, Unhandled)]
        ELSE [rows |-> Append(rows, link),
              rq |-> Done(rq, IF rq.kind = "POST /api/shorten"
                              THEN SendShortUrl(rq.slug)
                              ELSE SendLink(link.id))]
\* The insert that leaves its row as the only row of the table.
InsertResultReplaces(rq0, rows, t) ==
    LET rq == Call(rq0, "shortLink.create")
        link == NewLink(rows, rq.slug, DataUrl(rq.kind, rq.body), "", t)
    IN  [rows |-> << link >>, rq |-> Done(rq, SendLink(1))]
\* await prisma.shortLink.create(...), then the reply.  An insert the unique
\* index refuses throws, and nothing catches it.
InsertResult(rq0, rows, t) ==
    LET rq == Call(rq0, "shortLink.create")
        userId == IF rq.kind = "web POST /api/links"
                  THEN (CHOOSE u \in Users : u.email = rq.session).id
                  ELSE ""
        link == NewLink(rows, rq.slug, DataUrl(rq.kind, rq.body), userId, t)
    IN  IF SlugTaken(rows, rq.slug)
        THEN [rows |-> rows, rq |-> Done(rq, Unhandled)]
        ELSE [rows |-> Append(rows, link),
              rq |-> Done(rq, IF rq.kind = "POST /api/shorten"
                              THEN SendShortUrl(rq.slug)
                              ELSE SendLink(link.id))]

\* The insert written without the unique index's refusal taking it back: the
\* row is stored and the request still fails.
InsertKeepsRefused(r, rq0) ==
    LET rq == Call(rq0, "shortLink.create")
        link == NewLink(shortLinks, rq.slug, DataUrl(rq.kind, rq.body), "", now)
    IN  /\ shortLinks' = Append(shortLinks, link)
        /\ req' = [req EXCEPT ![r] =
                     Done(rq, IF SlugTaken(shortLinks, rq.slug) THEN Unhandled
                              ELSE IF rq.kind = "POST /api/shorten"
                              THEN SendShortUrl(rq.slug) ELSE SendLink(link.id))]

\* The insert as a step of request r.
Insert(r, rq0) ==
    LET result == InsertResult(rq0, shortLinks, now)
    IN  /\ shortLinks' = result.rows
        /\ req' = [req EXCEPT ![r] = result.rq]

\* if (parsed.data.slug) { const exists = await findUnique(...); if (exists) 400 }
ExistsResult(rq0, rows) ==
    LET rq == [Call(rq0, "shortLink.findUnique") EXCEPT
                  !.existed = findUnique(rows, rq0.slug) # {}]
    IN  IF findUnique(rows, rq.slug) # {}
        THEN Done(rq, SlugInUse)
        ELSE [rq EXCEPT !.pc = "create"]

\* The existence check with its answer ignored.
ExistsIgnored(r, rq0) ==
    LET rq == [Call(rq0, "shortLink.findUnique") EXCEPT
                  !.existed = findUnique(shortLinks, rq0.slug) # {}]
    IN  /\ req' = [req EXCEPT ![r] = [rq EXCEPT !.pc = "create"]]
        /\ UNCHANGED shortLinks

\* The existence check as a step of request r.
Exists(r, rq0) ==
    /\ req' = [req EXCEPT ![r] = ExistsResult(rq0, shortLinks)]
    /\ UNCHANGED shortLinks

\* POST /links and POST /api/shorten, up to and including the first store call:
\* safeParse, let slug = parsed.data.slug || nanoid(6), then the existence
\* check of a custom slug or the insert of a generated one.
CreateHandler(r, kind, body) ==
    LET rq == [Idle EXCEPT !.kind = kind, !.body = body]
    IN  IF ~Parsed(kind, body)
        THEN /\ req' = [req EXCEPT ![r] = Done(rq, InvalidInput(kind))]
             /\ UNCHANGED shortLinks
        ELSE IF DataSlug(kind, body) # Undefined
        THEN Exists(r, [rq EXCEPT !.slug = DataSlug(kind, body), !.custom = TRUE])
        ELSE \E g \in nanoid(NanoidSize) : Insert(r, [rq EXCEPT !.slug = g])

\* A client posts a body of the endpoint's shape to POST /links or to
\* POST /api/shorten.
StartCreate(r) ==
    /\ Free(r)
    /\ \E kind \in {"POST /links", "POST /api/shorten"} : \E body \in Bodies(kind) :
         CreateHandler(r, kind, body)
    /\ UNCHANGED << clicks, now >>

\* The web POST, up to and including its first store call: getServerSession,
\* prisma.user.findUnique, then req.json(), safeParse and the choice of the slug.
StartWebCreate(r) ==
    /\ Free(r)
    /\ \E session \in Sessions : \E body \in Bodies("web POST /api/links") :
         LET kind == "web POST /api/links"
             rq0 == [Idle EXCEPT !.kind = kind, !.session = session, !.body = body]
             rq == Call(rq0, "user.findUnique")
         IN  IF session = NoSession
             THEN req' = [req EXCEPT ![r] = Done(rq0, Error(401, "Unauthorized"))]
             ELSE IF {u \in Users : u.email = session} = {}
             THEN req' = [req EXCEPT ![r] = Done(rq, Error(400, "User not found"))]
             ELSE IF ~Parsed(kind, body)
             THEN req' = [req EXCEPT ![r] = Done(rq, InvalidInput(kind))]
             ELSE IF DataSlug(kind, body) # Undefined
             THEN req' = [req EXCEPT ![r] =
                            [rq EXCEPT !.slug = DataSlug(kind, body),
                                       !.custom = TRUE, !.pc = "find"]]
             ELSE \E g \in nanoid(NanoidSize) :
                    req' = [req EXCEPT ![r] = [rq EXCEPT !.slug = g, !.pc = "create"]]
    /\ UNCHANGED << shortLinks, clicks, now >>

\* The existence check of the web POST, its second store call.
CreateFind(r) ==
    /\ req[r].kind \in CreateKinds
    /\ req[r].pc = "find"
    /\ Exists(r, req[r])
    /\ UNCHANGED << clicks, now >>

\* The insert of a request that is past its first store call.
CreateInsert(r) ==
    /\ req[r].kind \in CreateKinds
    /\ req[r].pc = "create"
    /\ Insert(r, req[r])
    /\ UNCHANGED << clicks, now >>

\* A redirect request, up to and including its first store call:
\* const link = await prisma.shortLink.findUnique({ where: { slug } })
StartResolve(r) ==
    /\ Free(r)
    /\ \E kind \in ResolveKinds : \E slug \in ResolveSlugs :
         LET rq == [Call(Idle, "shortLink.findUnique") EXCEPT
                       !.kind = kind, !.slug = slug,
                       !.expired = \E i \in findUnique(shortLinks, slug) :
                                      Expired(shortLinks[i], now),
                       !.expect = {c[2] : c \in {c \in Created : c[1] = slug}}]
             found == findUnique(shortLinks, slug)
         IN  IF found = {}
             THEN req' = [req EXCEPT ![r] = Done(rq, NotFound(kind))]
             ELSE \E i \in found :
                    req' = [req EXCEPT ![r] =
                              [rq EXCEPT !.pc = "click",
                                         !.link = [id |-> shortLinks[i].id,
                                                   url |-> shortLinks[i].url]]]
    /\ UNCHANGED << shortLinks, clicks, now >>

\* await prisma.click.create({ data: { shortLinkId: link.id } }); the handler
\* of server.ts redirects right after it.
ResolveClick(r) ==
    /\ req[r].kind \in ResolveKinds
    /\ req[r].pc = "click"
    /\ clicks' = Append(clicks, NewClick(clicks, req[r].link.id))
    /\ LET rq == Call(req[r], "click.create")
       IN  IF rq.kind = "server GET /r/:slug"
           THEN req' = [req EXCEPT ![r] = Done(rq, Redirect(rq.kind, rq.link.url))]
           ELSE req' = [req EXCEPT ![r] = [rq EXCEPT !.pc = "update"]]
    /\ UNCHANGED << shortLinks, now >>

\* await prisma.shortLink.update({ ..., data: { clickCount: { increment: 1 } } })
ResolveUpdate(r) ==
    /\ req[r].kind \in ResolveKinds
    /\ req[r].pc = "update"
    /\ shortLinks' = Increment(shortLinks, req[r].link.id)
    /\ LET rq == Call(req[r], "shortLink.update")
       IN  req' = [req EXCEPT ![r] = Done(rq, Redirect(rq.kind, rq.link.url))]
    /\ UNCHANGED << clicks, now >>

\* Time passes.
Tick ==
    /\ now < MaxTime
    /\ now' = now + 1
    /\ UNCHANGED << shortLinks, clicks, req >>

Next ==
    \/ \E r \in Req : StartCreate(r)
    \/ \E r \in Req : StartWebCreate(r)
    \/ \E r \in Req : CreateFind(r)
    \/ \E r \in Req : CreateInsert(r)
    \/ \E r \in Req : StartResolve(r)
    \/ \E r \in Req : ResolveClick(r)
    \/ \E r \in Req : ResolveUpdate(r)
    \/ Tick

Spec == Init /\ [][Next]_vars

(***************************************************************************)
(* The store out of reach.  Every store call is awaited with no try/catch  *)
(* around it, so a call that rejects leaves the handler as an exception    *)
(* and the framework answers 500; nothing is written by the failed call.   *)
(***************************************************************************)
StoreDown(rq, op) == Done([Call(rq, op) EXCEPT !.fault = TRUE], Unhandled)

\* The first store call of a handler rejects: the existence check of a custom
\* slug or the insert of a generated one (POST /links, POST /api/shorten), the
\* user lookup (web POST), the slug lookup (redirects).
FailFirstCall(r) ==
    /\ Free(r)
    /\ \/ \E kind \in {"POST /links", "POST /api/shorten"} : \E body \in Bodies(kind) :
            LET rq == [Idle EXCEPT !.kind = kind, !.body = body]
            IN  /\ Parsed(kind, body)
                /\ IF DataSlug(kind, body) # Undefined
                   THEN req' = [req EXCEPT ![r] =
                                  StoreDown([rq EXCEPT !.slug = DataSlug(kind, body),
                                                       !.custom = TRUE],
                                            "shortLink.findUnique")]
                   ELSE \E g \in nanoid(NanoidSize) :
                          req' = [req EXCEPT ![r] =
                                    StoreDown([rq EXCEPT !.slug = g], "shortLink.create")]
       \/ \E session \in Sessions \ {NoSession} : \E body \in Bodies("web POST /api/links") :
            req' = [req EXCEPT ![r] =
                      StoreDown([Idle EXCEPT !.kind = "web POST /api/links",
                                             !.session = session, !.body = body],
                                "user.findUnique")]
       \/ \E kind \in ResolveKinds : \E slug \in ResolveSlugs :
            req' = [req EXCEPT ![r] =
                      StoreDown([Idle EXCEPT !.kind = kind, !.slug = slug],
                                "shortLink.findUnique")]
    /\ UNCHANGED << shortLinks, clicks, now >>

\* A later store call of a handler rejects.
FailCall(r) ==
    /\ req[r].pc \in {"find", "create", "click", "update"}
    /\ req' = [req EXCEPT ![r] =
                 StoreDown(req[r], CASE req[r].pc = "find" -> "shortLink.findUnique"
                                     [] req[r].pc = "create" -> "shortLink.create"
                                     [] req[r].pc = "click" -> "click.create"
                                     [] req[r].pc = "update" -> "shortLink.update")]
    /\ UNCHANGED << shortLinks, clicks, now >>

NextFaults ==
    \/ Next
    \/ \E r \in Req : FailFirstCall(r)
    \/ \E r \in Req : FailCall(r)

SpecFaults == Init /\ [][NextFaults]_vars

(***************************************************************************)
(* The listings.  A listing is one store call; its answer carries the rows *)
(* as they were read.                                                      *)
(***************************************************************************)
ListKinds == {"GET /links", "web GET /api/links"}

\* The orders in which a query may return the rows.
Orders(rows) ==
    {o \in [1..Len(rows) -> 1..Len(rows)] : \A i, j \in 1..Len(rows) : o[i] = o[j] => i = j}

\* findMany({ orderBy: { createdAt: 'desc' } }): rows of one createdAt come in
\* any order.
findManyDesc(rows) ==
    {[k \in 1..Len(rows) |-> rows[o[k]]] :
       o \in {o \in Orders(rows) :
                \A i, j \in 1..Len(rows) :
                    i < j => rows[o[i]].createdAt >= rows[o[j]].createdAt}}

\* findMany({}): no orderBy, so the database returns the rows in an order of
\* its choosing.
findMany(rows) == {[k \in 1..Len(rows) |-> rows[o[k]]] : o \in Orders(rows)}

\* reply.send(links) / NextResponse.json(links)
SendList(links) == [NoResp EXCEPT !.status = 200, !.list = links]

\* server.get('/links'): the listing of the backend.
ListLinks(r) ==
    /\ Free(r)
    /\ \E links \in findManyDesc(shortLinks) :
         req' = [req EXCEPT ![r] =
                   Done([Call(Idle, "shortLink.findMany") EXCEPT !.kind = "GET /links"],
                        SendList(links))]
    /\ UNCHANGED << shortLinks, clicks, now >>

\* export async function GET(): the listing of the web application.
WebListLinks(r) ==
    /\ Free(r)
    /\ \E links \in findMany(shortLinks) :
         req' = [req EXCEPT ![r] =
                   Done([Call(Idle, "shortLink.findMany") EXCEPT
                            !.kind = "web GET /api/links"],
                        SendList(links))]
    /\ UNCHANGED << shortLinks, clicks, now >>

NextList ==
    \/ Next
    \/ \E r \in Req : ListLinks(r)
    \/ \E r \in Req : WebListLinks(r)

SpecList == Init /\ [][NextList]_vars

(***************************************************************************)
(* The form of the web application, CreateLinkForm.                        *)
(***************************************************************************)
\* What is typed into the form: the url field is an <input type="url"
\* required>, so the browser submits only a well-formed URL; the slug field
\* is free text, and empty by default.
FormInputs == {i \in Inputs : IsUrl(i[1])}

\* body: JSON.stringify({ url, slug: slug || undefined })
FormBody(i) == [NoBody EXCEPT !.url = i[1], !.slug = i[2]]

\* handleSubmit: fetch("http://localhost:3001/api/shorten", { method: "POST",
\* body }), served by the handler of POST /api/shorten.
SubmitForm(r) ==
    /\ Free(r)
    /\ \E i \in FormInputs : CreateHandler(r, "POST /api/shorten", FormBody(i))
    /\ UNCHANGED << clicks, now >>

\* if (!res.ok) setError(data.error || "Failed to create link")
\* else setResult(data.shortUrl)
FormShows(resp) ==
    IF resp.status \in 200..299
    THEN [result |-> resp.shortUrl, error |-> ""]
    ELSE [result |-> << >>,
          error |-> IF resp.error # "" THEN resp.error ELSE "Failed to create link"]

NextForm ==
    \/ Next
    \/ \E r \in Req : SubmitForm(r)

SpecForm == Init /\ [][NextForm]_vars

(***************************************************************************)
(* The seed scripts.  A script is a process of its own: it takes the first *)
(* request slot, on a database that is empty, and runs its store calls in  *)
(* order; an exception leaves main() and the script exits with code 1.     *)
(***************************************************************************)
SeedKinds == {"backend seed", "web seed"}
SlugDocs == <<"d","o","c","s">>

InitSeed ==
    /\ shortLinks = << >>
    /\ clicks = << >>
    /\ now = 0
    /\ req = [r \in Req |-> Idle]

\* main().catch(e => { console.error(e); process.exit(1) })
SeedExit(rq, code, msg) == Done(rq, [NoResp EXCEPT !.status = code, !.error = msg])

\* prisma.user.upsert(...): the User row is the one of Users.
SeedStart(r) ==
    /\ r = 1
    /\ \A q \in Req : req[q].pc = "idle"
    /\ shortLinks = << >> /\ clicks = << >>
    /\ \E kind \in SeedKinds :
         req' = [req EXCEPT ![r] =
                   [Call(Idle, "user.upsert") EXCEPT !.kind = kind, !.pc = "seed hello",
                                                     !.session = "test@example.com"]]
    /\ UNCHANGED << shortLinks, clicks, now >>

\* create({ data: { slug, url, userId: user.id, clickCount? } }): the schema
\* of the web seed's Link has no clickCount, the backend seed passes one.
SeedCreate(r, slug, url, clickCount, next) ==
    LET rq == Call(req[r], "shortLink.create")
        link == [NewLink(shortLinks, slug, url, "u1", now) EXCEPT
                    !.clickCount = IF rq.kind = "backend seed" THEN clickCount ELSE 0]
    IN  /\ IF SlugTaken(shortLinks, slug)
           THEN /\ req' = [req EXCEPT ![r] =
                             SeedExit(rq, 1, "Unique constraint failed")]
                /\ UNCHANGED shortLinks
           ELSE /\ shortLinks' = Append(shortLinks, link)
                /\ req' = [req EXCEPT ![r] = [rq EXCEPT !.pc = next]]
        /\ UNCHANGED << clicks, now >>

\* click.createMany({ data: [link1, link1, link2] }), with link1 and link2
\* the rows the script created for 'hello' and 'docs'.
SeedClicks(r) ==
    LET rq == Call(req[r], "click.createMany")
        link1 == CHOOSE i \in findUnique(shortLinks, SlugHello) : TRUE
        link2 == CHOOSE i \in findUnique(shortLinks, SlugDocs) : TRUE
        c1 == Append(clicks, NewClick(clicks, link1))
        c2 == Append(c1, NewClick(c1, link1))
        c3 == Append(c2, NewClick(c2, link2))
    IN  /\ clicks' = c3
        /\ req' = [req EXCEPT ![r] =
                     IF rq.kind = "web seed" THEN [rq EXCEPT !.pc = "seed again"]
                     ELSE SeedExit(rq, 0, "")]
        /\ UNCHANGED << shortLinks, now >>

\* The next store call of a seed script.
SeedStep(r) ==
    /\ req[r].kind \in SeedKinds
    /\ CASE req[r].pc = "seed hello" ->
               SeedCreate(r, SlugHello, UrlExample, 2, "seed docs")
         [] req[r].pc = "seed docs" ->
               SeedCreate(r, SlugDocs, UrlDocs, 1, "seed clicks")
         [] req[r].pc = "seed clicks" -> SeedClicks(r)
         [] req[r].pc = "seed again" ->
               SeedCreate(r, SlugHello, UrlExample, 0, "seed end")
         [] req[r].pc = "seed end" ->
               /\ req' = [req EXCEPT ![r] = SeedExit(req[r], 0, "")]
               /\ UNCHANGED << shortLinks, clicks, now >>
         [] OTHER -> FALSE

NextSeed ==
    \/ Next
    \/ \E r \in Req : SeedStart(r)
    \/ \E r \in Req : SeedStep(r)

SpecSeed == InitSeed /\ [][NextSeed]_vars

(***************************************************************************)
(* Vocabulary of the properties.                                           *)
(***************************************************************************)
IsCreate(r) == req[r].kind \in CreateKinds
IsResolve(r) == req[r].kind \in ResolveKinds
IsDone(r) == req[r].pc = "done"
Settled == \A r \in Req : req[r].pc \in {"idle", "done"}
Issued(r, op) == \E i \in 1..Len(req[r].calls) : req[r].calls[i] = op
\* The number of inserts a create request has attempted.
Attempts(r) ==
    Cardinality({i \in 1..Len(req[r].calls) : req[r].calls[i] = "shortLink.create"})
\* The finished redirect requests whose lookup returned row i.
Resolved(i) == {r \in Req : IsResolve(r) /\ IsDone(r) /\ req[r].link.id = i}
GetR == {"server GET /r/:slug", "routes GET /r/:slug"}

\* C1: in every reachable state, whatever the interleaving of the create
\* requests of the three entry points (custom or generated slugs), no two
\* ShortLink rows share a slug.
C1_SlugUnique ==
    \A i, j \in 1..Len(shortLinks) :
        shortLinks[i].slug = shortLinks[j].slug => i = j

\* Two create requests asked for one slug; the store took one insert and
\* refused the other.
C1_Witness ==
    \E a, b \in Req :
        /\ a # b /\ IsCreate(a) /\ IsCreate(b) /\ IsDone(a) /\ IsDone(b)
        /\ req[a].slug # Undefined /\ req[a].slug = req[b].slug
        /\ req[a].resp.status = 200
        /\ Issued(b, "shortLink.create") /\ req[b].resp.status = 500

\* C2: of two create requests that carry the same valid custom slug (unused
\* before them, and asked for by no third request), exactly one succeeds, the
\* other is answered 400 'Slug already in use', and one row holds the slug.
C2_OneWinsOtherConflict ==
    \A a, b \in Req :
        ( /\ a # b /\ IsCreate(a) /\ IsCreate(b) /\ IsDone(a) /\ IsDone(b)
          /\ req[a].custom /\ req[b].custom /\ req[a].slug = req[b].slug
          /\ req[a].slug # InitialLink.slug
          /\ \A q \in Req \ {a, b} : ~(IsCreate(q) /\ req[q].slug = req[a].slug) )
        => /\ Cardinality({x \in {a, b} : req[x].resp.status = 200}) = 1
           /\ \E x \in {a, b} :
                req[x].resp.status = 400 /\ req[x].resp.error = "Slug already in use"
           /\ Cardinality(findUnique(shortLinks, req[a].slug)) = 1

\* C3: once every redirect request has completed, each link's clickCount is
\* its value before them (0) plus the number N of requests that resolved it,
\* and exactly N Click rows reference it.
C3_NoLostClicks ==
    Settled =>
        \A i \in 1..Len(shortLinks) :
            /\ shortLinks[i].clickCount = Cardinality(Resolved(i))
            /\ Cardinality(ClicksOf(i)) = Cardinality(Resolved(i))

\* C4: in every reachable state, also with a redirect request part-way, each
\* link's clickCount equals the number of Click rows that reference it.
C4_CountEqualsClicks ==
    \A i \in 1..Len(shortLinks) :
        shortLinks[i].clickCount = Cardinality(ClicksOf(i))

C6_ExpiredNotFound ==
    \A r \in Req :
        (IsResolve(r) /\ req[r].expired)
        => /\ IsDone(r)
           /\ req[r].resp.status # 302 /\ req[r].resp.status # 307
           /\ req[r].resp.location = << >>
           /\ ~Issued(r, "click.create")
           /\ ~Issued(r, "shortLink.update")

\* A redirect request for a slug that has no row.
NoRow(r) ==
    IsResolve(r) /\ req[r].pc # "idle" /\ findUnique(shortLinks, req[r].slug) = {}

\* C7 as stated: resolving a slug without a row is answered 404 with an error
\* body, never a server error, and issues no store write, in every
\* implementation of the redirect.
C7_Original ==
    \A r \in Req :
        NoRow(r)
        => /\ IsDone(r)
           /\ req[r].resp.status = 404 /\ req[r].resp.error # ""
           /\ req[r].calls = << "shortLink.findUnique" >>

\* C7, amended: resolving a slug without a row is answered 404 with an error
\* body by the GET /r/:slug handlers and with the 'Link not found' page (no 404
\* status) by RedirectPage; never with a server error, and with no store call
\* but the lookup.
C7_MissingNotFound ==
    \A r \in Req :
        NoRow(r)
        => /\ IsDone(r)
           /\ req[r].resp.status < 500
           /\ req[r].resp.location = << >>
           /\ req[r].calls = << "shortLink.findUnique" >>
           /\ IF req[r].kind = "RedirectPage"
              THEN req[r].resp.status = 200 /\ req[r].resp.page = "Link not found"
              ELSE req[r].resp.status = 404 /\ req[r].resp.error # ""

\* A GET /r/:slug for a slug without a row was answered 404, and RedirectPage
\* answered one with its page.
C7_Witness ==
    \E a, b \in Req :
        /\ NoRow(a) /\ IsDone(a) /\ req[a].resp.status = 404
        /\ NoRow(b) /\ IsDone(b) /\ req[b].kind = "RedirectPage"

\* A create request whose body the schemas must reject: the url 'not a url',
\* or a slug of 2 characters, of 33 characters, or with a space.
BadBody(r) ==
    /\ IsCreate(r)
    /\ \/ DataUrl(req[r].kind, req[r].body) = UrlBad
       \/ DataSlug(req[r].kind, req[r].body) \in {SlugShort, SlugSpace, SlugLong}

\* C8 as stated: in every create entry point, a request with a malformed url
\* or custom slug fails with the validation error, having issued no store
\* read or write.
C8_Original ==
    \A r \in Req :
        BadBody(r)
        => /\ IsDone(r)
           /\ req[r].resp.status = 400
           /\ req[r].resp.error \in {"Invalid input", "Invalid data"}
           /\ req[r].calls = << >>

\* C8, amended: POST /links and POST /api/shorten answer such a request 400
\* 'Invalid input' with no store call at all.  The web POST /api/links
\* authenticates first: it answers 401 without a session, 400 'User not
\* found' for an unknown user, and 400 'Invalid data' otherwise, having issued
\* the User lookup only.  No entry point reads or writes ShortLink for it.
C8_ValidationFirst ==
    \A r \in Req :
        BadBody(r)
        => /\ IsDone(r)
           /\ ~Issued(r, "shortLink.findUnique") /\ ~Issued(r, "shortLink.create")
           /\ IF req[r].kind # "web POST /api/links"
              THEN /\ req[r].resp.status = 400 /\ req[r].resp.error = "Invalid input"
                   /\ req[r].calls = << >>
              ELSE IF req[r].session = NoSession
              THEN req[r].resp.status = 401 /\ req[r].calls = << >>
              ELSE /\ req[r].resp.status = 400
                   /\ req[r].calls = << "user.findUnique" >>
                   /\ req[r].resp.error =
                        IF \E u \in Users : u.email = req[r].session
                        THEN "Invalid data" ELSE "User not found"

\* POST /links refused a slug of 2 characters, and the web POST refused a slug
\* with a space from a signed-in user.
C8_Witness ==
    \E a, b \in Req :
        /\ req[a].kind = "POST /links" /\ req[a].body.slug = SlugShort
        /\ req[a].resp.error = "Invalid input"
        /\ req[b].kind = "web POST /api/links" /\ req[b].body.slug = SlugSpace
        /\ req[b].resp.error = "Invalid data"

\* C9: a create request without a custom slug makes at most 5 inserts, and
\* ends with a created link or, its generated slugs having collided, with an
\* error only after it regenerated the slug and retried the insert.
C9_RetryOnCollision ==
    \A r \in Req :
        (IsCreate(r) /\ IsDone(r) /\ ~req[r].custom /\ Attempts(r) > 0)
        => /\ Attempts(r) <= 5
           /\ req[r].resp.status = 200 \/ Attempts(r) > 1

\* C10: a create request whose valid custom slug has a row when the request
\* checks for it is answered 400 'Slug already in use' at once: it attempts no
\* insert, with that slug or another, so the store is as it was.
C10_CustomConflictDirect ==
    \A r \in Req :
        (IsCreate(r) /\ req[r].custom /\ req[r].existed)
        => /\ IsDone(r)
           /\ req[r].resp.status = 400 /\ req[r].resp.error = "Slug already in use"
           /\ Attempts(r) = 0
           /\ req[r].calls[Len(req[r].calls)] = "shortLink.findUnique"

\* A custom slug that an earlier request had created was asked for again.
C10_Witness ==
    \E a, b \in Req :
        /\ a # b /\ IsCreate(a) /\ req[a].resp.status = 200
        /\ IsCreate(b) /\ req[b].custom /\ req[b].existed /\ IsDone(b)
        /\ req[b].slug = req[a].slug

\* C11: a step of a create request adds exactly one ShortLink row (and changes
\* no other) when it answers with success, leaves the ShortLink rows as they
\* were when it answers with a failure or has not answered yet, and never
\* inserts or changes a Click row.
C11_CreateEffect ==
    [][ \A r \in Req :
          (req'[r].kind \in CreateKinds /\ req'[r] # req[r])
          => /\ clicks' = clicks
             /\ IF req'[r].pc = "done" /\ req'[r].resp.status = 200
                THEN /\ Len(shortLinks') = Len(shortLinks) + 1
                     /\ SubSeq(shortLinks', 1, Len(shortLinks)) = shortLinks
                ELSE shortLinks' = shortLinks ]_vars

\* One create request was answered with success and its row is stored, and
\* another was answered with a failure.
C11_Witness ==
    \E a, b \in Req :
        /\ IsCreate(a) /\ IsDone(a) /\ req[a].resp.status = 200
        /\ findUnique(shortLinks, req[a].slug) # {}
        /\ IsCreate(b) /\ IsDone(b) /\ req[b].resp.status >= 400

\* C12: a redirect request whose lookup found an active link answers with the
\* redirect to the link's url, also when the click or counter write after the
\* lookup failed.
C12_ClickFailureStillRedirects ==
    \A r \in Req :
        (IsResolve(r) /\ IsDone(r) /\ req[r].link # NoLink /\ ~req[r].expired)
        => /\ req[r].resp.status \in {302, 307}
           /\ req[r].resp.location = req[r].link.url

\* C13: a POST /links that stored a row answers with status 201 and the row it
\* stored (the slug and url of the request, clickCount 0 when it was sent);
\* one that failed validation or met a taken slug answers with status 400 and
\* an error body.
C13_PostLinksContract ==
    \A r \in Req :
        (req[r].kind = "POST /links" /\ IsDone(r) /\ ~req[r].fault)
        => IF BadBody(r) \/ req[r].existed
           THEN req[r].resp.status = 400 /\ req[r].resp.error # ""
           ELSE /\ req[r].resp.status = 201
                /\ req[r].resp.link \in 1..Len(shortLinks)
                /\ shortLinks[req[r].resp.link].slug = req[r].slug
                /\ shortLinks[req[r].resp.link].url = DataUrl(req[r].kind, req[r].body)

BodyOf(kind, i) ==
    IF kind = "POST /api/shorten"
    THEN [NoBody EXCEPT !.originalUrl = i[1], !.customSlug = i[2]]
    ELSE [NoBody EXCEPT !.url = i[1], !.slug = i[2]]

\* The inputs each entry point's schema accepts.
Accepted ==
    [kind \in {"POST /links", "POST /api/shorten"} |->
        {i \in Inputs : Parsed(kind, BodyOf(kind, i))}]

\* What a create handler of the backend does when it runs alone from the
\* current store with input i and, should it need one, the generated slug g:
\* the answer's status and error, and the ShortLink rows it leaves.
RunAlone(kind, i, g) ==
    LET body == BodyOf(kind, i)
        rq == [Idle EXCEPT !.kind = kind, !.body = body]
        checked == ExistsResult([rq EXCEPT !.slug = DataSlug(kind, body),
                                           !.custom = TRUE], shortLinks)
        stored == IF DataSlug(kind, body) # Undefined
                  THEN InsertResult(checked, shortLinks, now)
                  ELSE InsertResult([rq EXCEPT !.slug = g], shortLinks, now)
        answer == IF i \notin Accepted[kind] THEN InvalidInput(kind)
                  ELSE IF DataSlug(kind, body) # Undefined /\ checked.pc = "done"
                  THEN checked.resp
                  ELSE stored.rq.resp
    IN  [status |-> answer.status, error |-> answer.error,
         rows |-> IF answer.status = 200 THEN stored.rows ELSE shortLinks]

\* C14: from every reachable store state and for every url and custom slug,
\* POST /api/shorten and POST /links answer with the same status and error
\* and leave the same ShortLink rows; and a POST /api/shorten that succeeded
\* returned the base URL followed by /r/ and the slug of the row it stored.
C14_ShortenAsLinks ==
    [](/\ \A i \in Inputs : \A g \in nanoid(NanoidSize) :
            RunAlone("POST /api/shorten", i, g) = RunAlone("POST /links", i, g)
       /\ \A r \in Req :
            (req[r].kind = "POST /api/shorten" /\ IsDone(r) /\ req[r].resp.status = 200)
            => \E k \in 1..Len(shortLinks) :
                 /\ shortLinks[k].slug = req[r].slug
                 /\ shortLinks[k].url = req[r].body.originalUrl
                 /\ req[r].resp.shortUrl
                      = BaseUrl \o <<"/", "r", "/">> \o shortLinks[k].slug)

\* A POST /links stored a custom slug, and a POST /api/shorten that asked for
\* the same slug afterwards was answered with the conflict; a POST /api/shorten
\* without a custom slug would now be stored.
C14_Witness ==
    \E a, b \in Req :
        /\ req[a].kind = "POST /links" /\ IsDone(a) /\ req[a].resp.status = 200
        /\ req[a].custom
        /\ req[b].kind = "POST /api/shorten" /\ IsDone(b)
        /\ req[b].slug = req[a].slug /\ req[b].resp = SlugInUse
        /\ \E g \in nanoid(NanoidSize) :
             RunAlone("POST /api/shorten", << UrlExample, Undefined >>, g).status = 200

\* C15: every listing answered, by the backend GET /links and by the web GET
\* /api/links, is newest first: each link's createdAt is greater than or equal
\* to the createdAt of every link after it.
C15_NewestFirst ==
    \A r \in Req :
        (req[r].kind \in ListKinds /\ IsDone(r))
        => \A i, j \in 1..Len(req[r].resp.list) :
             i < j => req[r].resp.list[i].createdAt >= req[r].resp.list[j].createdAt

\* C16: a create request that met an unreachable store (at the existence
\* check or at the insert) is answered with a 5xx and not with the conflict
\* 'Slug already in use'; a create request that failed because its slug was
\* held by a row is not answered with a 5xx.
C16_DistinctCauses ==
    \A r \in Req :
        (IsCreate(r) /\ IsDone(r))
        => /\ req[r].fault
              => req[r].resp.status \in 500..599 /\ req[r].resp # SlugInUse
           /\ ( /\ ~req[r].fault
                /\ req[r].resp.status # 200
                /\ findUnique(shortLinks, req[r].slug) # {} )
              => req[r].resp.status \notin 500..599

\* The finished listings.
Listed == {r \in Req : req[r].kind \in ListKinds /\ IsDone(r)}

\* C17: the clickCount of every ShortLink row is non-negative and no step
\* lowers it; every clickCount a listing returned is non-negative and at most
\* the value the row holds in every later state, so that a later observation
\* is never below an earlier one.
C17_ClickCountMonotone ==
    /\ [](/\ \A i \in 1..Len(shortLinks) : shortLinks[i].clickCount >= 0
          /\ \A r \in Listed : \A k \in 1..Len(req[r].resp.list) :
               /\ req[r].resp.list[k].clickCount >= 0
               /\ req[r].resp.list[k].clickCount
                    <= shortLinks[req[r].resp.list[k].id].clickCount)
    /\ [][ /\ Len(shortLinks') >= Len(shortLinks)
           /\ \A i \in 1..Len(shortLinks) :
                /\ shortLinks'[i].id = shortLinks[i].id
                /\ shortLinks'[i].clickCount >= shortLinks[i].clickCount ]_vars

\* A listing returned a link with clickCount 0, and a redirect has raised the
\* link's clickCount since.
C17_Witness ==
    \E r \in Listed : \E k \in 1..Len(req[r].resp.list) :
        /\ req[r].resp.list[k].clickCount = 0
        /\ shortLinks[req[r].resp.list[k].id].clickCount >= 1

\* The number of click inserts a redirect request has issued.
ClickInserts(r) ==
    Cardinality({i \in 1..Len(req[r].calls) : req[r].calls[i] = "click.create"})

\* C18: a redirect request that answered with a redirect has inserted exactly
\* one Click row, which references the link it resolved; one that answered
\* NotFound has inserted none; the Click rows of each link are as many as the
\* inserts issued for it; and no step changes or removes a Click row.
C18_ClicksAppendOnly ==
    /\ [](/\ \A r \in Req :
               (IsResolve(r) /\ IsDone(r))
               => IF req[r].resp.status \in {302, 307}
                  THEN /\ ClickInserts(r) = 1
                       /\ req[r].link.id \in 1..Len(shortLinks)
                       /\ shortLinks[req[r].link.id].slug = req[r].slug
                  ELSE ClickInserts(r) = 0
          /\ \A i \in 1..Len(shortLinks) :
               Cardinality(ClicksOf(i))
                 = Cardinality({r \in Req : /\ IsResolve(r)
                                            /\ ClickInserts(r) = 1
                                            /\ req[r].link.id = i})
          /\ Len(clicks) = Cardinality(UNION {ClicksOf(i) : i \in 1..Len(shortLinks)}))
    /\ [][ /\ Len(clicks') >= Len(clicks)
           /\ SubSeq(clicks', 1, Len(clicks)) = clicks ]_vars

\* One redirect request was answered with a redirect and its link has a Click
\* row; another was answered NotFound.
C18_Witness ==
    \E a, b \in Req :
        /\ IsResolve(a) /\ IsDone(a) /\ req[a].resp.status \in {302, 307}
        /\ ClicksOf(req[a].link.id) # {}
        /\ IsResolve(b) /\ IsDone(b) /\ req[b].resp \in {NotFound(k) : k \in ResolveKinds}

\* A create request whose custom slug no stored row held before it and no
\* other create request asks for.
OwnUnusedSlug(r) ==
    /\ IsCreate(r) /\ req[r].custom
    /\ req[r].slug # InitialLink.slug
    /\ \A q \in Req \ {r} : IsCreate(q) => req[q].slug # req[r].slug

\* C19: of two create requests with different valid custom slugs, both unused,
\* each one that has answered has answered with success, and its row exists
\* with its own url, whatever the interleaving of their store calls.
C19_DifferentSlugsBothSucceed ==
    \A a \in Req :
        (IsDone(a) /\ OwnUnusedSlug(a))
        => \A b \in Req \ {a} :
             OwnUnusedSlug(b)
             => /\ req[a].resp.status = 200
                /\ \E k \in 1..Len(shortLinks) :
                     /\ shortLinks[k].slug = req[a].slug
                     /\ shortLinks[k].url = DataUrl(req[a].kind, req[a].body)

\* Two POST /links with different unused custom slugs overlapped (the one that
\* began first stored its row second) and both succeeded.
C19_Witness ==
    \E a, b \in Req :
        /\ a < b /\ OwnUnusedSlug(a) /\ OwnUnusedSlug(b)
        /\ req[a].kind = "POST /links" /\ req[b].kind = "POST /links"
        /\ IsDone(a) /\ IsDone(b)
        /\ req[a].resp.status = 200 /\ req[b].resp.status = 200
        /\ req[b].resp.link < req[a].resp.link

\* C20: the slug of every ShortLink row stored by a create request is 3 to 32
\* characters long and made of the characters A-Z, a-z, 0-9, _ and - only; a
\* slug that a create request generated is exactly 6 such characters.
C20_StoredSlugShape ==
    \A r \in Req :
        (IsCreate(r) /\ IsDone(r) /\ req[r].resp.status = 200)
        => /\ \E k \in 1..Len(shortLinks) : shortLinks[k].slug = req[r].slug
           /\ Len(req[r].slug) >= SlugMin /\ Len(req[r].slug) <= SlugMax
           /\ \A c \in 1..Len(req[r].slug) : req[r].slug[c] \in SlugAlphabet
           /\ ~req[r].custom => Len(req[r].slug) = NanoidSize

\* One create request stored a custom slug and another stored a generated one.
C20_Witness ==
    \E a, b \in Req :
        /\ IsCreate(a) /\ IsDone(a) /\ req[a].resp.status = 200 /\ req[a].custom
        /\ IsCreate(b) /\ IsDone(b) /\ req[b].resp.status = 200 /\ ~req[b].custom
        /\ findUnique(shortLinks, req[a].slug) # {}
        /\ findUnique(shortLinks, req[b].slug) # {}

\* C21: no step of a create, a redirect or a listing changes the id, slug,
\* url, userId, createdAt or expiresAt of a ShortLink row that exists; the
\* only field of an existing row that a step changes is clickCount.
C21_OnlyClickCountChanges ==
    [][ \A i \in 1..Len(shortLinks) :
          /\ i <= Len(shortLinks')
          /\ shortLinks'[i]
               = [shortLinks[i] EXCEPT !.clickCount = shortLinks'[i].clickCount] ]_vars

\* A redirect has raised the clickCount of the initial link, whose other
\* fields are as they were stored, and a create has added a row since.
C21_Witness ==
    /\ Len(shortLinks) >= 2
    /\ shortLinks[1].clickCount >= 1
    /\ shortLinks[1] = [InitialLink EXCEPT !.clickCount = shortLinks[1].clickCount]

\* C22: no step removes a ShortLink row: after every step each row that
\* existed is still there under its id and its slug, so the ids and the slugs
\* in use only grow, and a link whose expiresAt has passed still holds its slug.
C22_NeverDeleted ==
    [][ /\ Len(shortLinks') >= Len(shortLinks)
        /\ \A i \in 1..Len(shortLinks) :
             /\ shortLinks'[i].id = shortLinks[i].id
             /\ shortLinks'[i].slug = shortLinks[i].slug
        /\ {shortLinks[i].slug : i \in 1..Len(shortLinks)}
             \subseteq {shortLinks'[i].slug : i \in 1..Len(shortLinks')} ]_vars

\* The initial link has expired and still holds its slug, after creates have
\* added rows and a redirect has resolved it.
C22_Witness ==
    /\ Expired(InitialLink, now)
    /\ \E i \in 1..Len(shortLinks) : shortLinks[i].slug = InitialLink.slug
    /\ Len(shortLinks) >= 2
    /\ \E r \in Req : IsResolve(r) /\ IsDone(r) /\ req[r].slug = InitialLink.slug

\* C23: in every reachable state the shortLinkId of every Click row is the id
\* of a ShortLink row that exists.
C23_ClickReferencesLink ==
    \A c \in 1..Len(clicks) :
        \E i \in 1..Len(shortLinks) : shortLinks[i].id = clicks[c].shortLinkId

\* A link stored by a create request has a Click row.
C23_Witness ==
    \E c \in 1..Len(clicks) : \E i \in 2..Len(shortLinks) :
        shortLinks[i].id = clicks[c].shortLinkId

\* C24: a redirect request is answered with a redirect only if the time of
\* its lookup was not past the expiresAt of its link, and of two finished
\* redirect requests for one slug, if one found the link expired then the
\* other was not answered with a redirect after finding it expired too.
C24_OneWayExpiry ==
    \A r \in Req :
        (IsResolve(r) /\ IsDone(r) /\ req[r].resp.status \in {302, 307})
        => /\ ~req[r].expired
           /\ \A q \in Req \ {r} :
                (IsResolve(q) /\ IsDone(q) /\ req[q].slug = req[r].slug /\ req[q].expired)
                => req[q].resp = NotFound(req[q].kind)

\* C25: two finished redirect requests, whichever implementations served
\* them, whose lookups had the same result (the same row, or none) have the
\* same outcome (a redirect to the link's url, or not found) and have issued
\* the same store writes, so that each leaves one more Click row and a
\* clickCount one higher, or nothing.
C25_RedirectsAgree ==
    \A a, b \in Req :
        (IsResolve(a) /\ IsResolve(b) /\ IsDone(a) /\ IsDone(b) /\ req[a].link = req[b].link)
        => /\ req[a].calls = req[b].calls
           /\ req[a].resp.location = req[b].resp.location
           /\ (req[a].resp.status \in {302, 307}) = (req[b].resp.status \in {302, 307})

\* A finished request that the form sent.
FromForm(r) ==
    /\ req[r].kind = "POST /api/shorten" /\ IsDone(r)
    /\ req[r].body.url # Undefined

\* C26: a request the form sent with a well-formed url and no custom slug, or
\* a valid custom slug that no row holds and no other request asks for, passes
\* the validation of POST /api/shorten and is answered with success: a row
\* with the url and the requested slug exists and the form shows a shortUrl.
C26_FormAccepted ==
    \A r \in Req :
        ( /\ FromForm(r)
          /\ IsUrl(req[r].body.url)
          /\ \/ req[r].body.slug = Undefined
             \/ /\ req[r].body.slug \in {SlugAbc, SlugXyz}
                /\ \A q \in Req \ {r} :
                     req[q].slug # req[r].body.slug /\ req[q].body.slug # req[r].body.slug )
        => /\ req[r].resp # InvalidInput(req[r].kind)
           /\ req[r].resp.status = 200
           /\ \E k \in 1..Len(shortLinks) :
                /\ shortLinks[k].url = req[r].body.url
                /\ req[r].body.slug # Undefined => shortLinks[k].slug = req[r].body.slug
           /\ FormShows(req[r].resp).result # << >>

\* A finished request of the web POST /api/links.
WebDone(r) == req[r].kind = "web POST /api/links" /\ IsDone(r)

\* C27: a web POST /api/links without a session is answered 401, one whose
\* session email has no User row is answered 400, and neither has issued a
\* store write nor does the step that answers it change the ShortLink table;
\* the row of every web POST answered with success has the userId of the
\* User whose email is the session's.
C27_AuthenticatedOwner ==
    /\ [](\A r \in Req :
            WebDone(r)
            => /\ req[r].session = NoSession
                  => /\ req[r].resp = Error(401, "Unauthorized")
                     /\ req[r].calls = << >>
               /\ (req[r].session # NoSession /\ req[r].session # "test@example.com")
                  => /\ req[r].resp = Error(400, "User not found")
                     /\ req[r].calls = << "user.findUnique" >>
               /\ req[r].resp.status = 200
                  => /\ req[r].session = "test@example.com"
                     /\ req[r].resp.link \in 1..Len(shortLinks)
                     /\ shortLinks[req[r].resp.link].slug = req[r].slug
                     /\ shortLinks[req[r].resp.link].userId = "u1")
    /\ [][ \A r \in Req :
             ( /\ req'[r] # req[r]
               /\ req'[r].kind = "web POST /api/links"
               /\ req'[r].resp.status \in {400, 401} )
             => shortLinks' = shortLinks ]_vars

\* One web POST was refused for its missing session or unknown user, and
\* another stored a row owned by the session's user.
C27_Witness ==
    \E a, b \in Req :
        /\ WebDone(a) /\ req[a].resp.status \in {400, 401}
        /\ req[a].session # "test@example.com"
        /\ WebDone(b) /\ req[b].resp.status = 200
        /\ shortLinks[req[b].resp.link].userId = "u1"
        /\ req[b].resp.link > 1

\* C28: a step of a redirect request creates no ShortLink row, leaves every
\* row other than the one its lookup returned as it was, and adds no Click
\* row but for that link, whatever other requests are part-way.
C28_ResolveTouchesOwnLink ==
    [][ \A r \in Req :
          (req'[r] # req[r] /\ req'[r].kind \in ResolveKinds)
          => /\ Len(shortLinks') = Len(shortLinks)
             /\ \A i \in 1..Len(shortLinks) :
                  i # req'[r].link.id => shortLinks'[i] = shortLinks[i]
             /\ Len(clicks') >= Len(clicks)
             /\ \A c \in 1..Len(clicks') :
                  IF c <= Len(clicks) THEN clicks'[c] = clicks[c]
                  ELSE /\ clicks'[c].shortLinkId = req'[r].link.id
                       /\ shortLinks[req'[r].link.id].slug = req'[r].slug ]_vars

\* A redirect of the initial link has recorded its click and raised its
\* clickCount, while a link created beside it has no click and clickCount 0.
C28_Witness ==
    /\ Len(shortLinks) >= 2
    /\ shortLinks[1].clickCount >= 1 /\ ClicksOf(1) # {}
    /\ shortLinks[2].clickCount = 0 /\ ClicksOf(2) = {}
    /\ \E r \in Req : IsResolve(r) /\ IsDone(r) /\ req[r].link.id = 1

\* C29: a seed script that has run alone on an empty database has issued all
\* its store writes and exited without an error, and the state it leaves has
\* one row per slug, every Click referencing a link that exists and, for the
\* backend seed, each link's clickCount equal to the number of its Click rows.
C29_SeedsComplete ==
    \A r \in Req :
        ( /\ req[r].kind \in SeedKinds /\ IsDone(r)
          /\ \A q \in Req \ {r} : req[q].pc = "idle" )
        => /\ req[r].resp.status = 0 /\ req[r].resp.error = ""
           /\ Len(shortLinks) >= 2 /\ Len(clicks) = 3
           /\ \A i, j \in 1..Len(shortLinks) :
                shortLinks[i].slug = shortLinks[j].slug => i = j
           /\ \A c \in 1..Len(clicks) : clicks[c].shortLinkId \in 1..Len(shortLinks)
           /\ req[r].kind = "backend seed"
              => \A i \in 1..Len(shortLinks) :
                   shortLinks[i].clickCount = Cardinality(ClicksOf(i))

====
